---- MODULE Spec2Model ----
(***************************************************************************)
(* Model of the chart annotation subsystem of tradingview.client:          *)
(* the DrawingManager of src/src/utils/drawingTools.ts (drawing model,     *)
(* interaction state machine, render pipeline, canvas lifecycle), and of   *)
(* its indicator functions calculateRSI, calculateMACD and calculateEMA.   *)
(***************************************************************************)
EXTENDS Integers, Sequences, FiniteSets, TLC

(***************************************************************************)
(* Bounds of the model.                                                    *)
(***************************************************************************)
\* most primitives kept in lines and shapes together
MaxDrawings == 2
\* last value of the millisecond clock read by Date.now()
MaxClock == 1
\* most DrawingManager objects constructed in one behaviour
MaxManagers == 2
\* longest price series handed to an indicator
MaxSeries == 4
\* largest period handed to an indicator
MaxPeriod == 3
\* most runs of the chart component's mount effect in one behaviour
MaxMounts == 3

(***************************************************************************)
(* Inputs.                                                                 *)
(***************************************************************************)
\* the times of the domain points handed to the manager
Times == {10, 20}

\* domain points {time, price}
Points == {[time |-> 10, price |-> 100], [time |-> 20, price |-> 110]}

\* the type strings of DrawingLine
LineTypes == {"trendline", "horizontal", "vertical", "ray", "horizontal-line", "vertical-line"}

\* the type strings of DrawingShape
ShapeTypes == {"rectangle", "circle", "triangle"}

\* the type strings handed to startDrawing: a line and a shape type that
\* startDrawing has a case for, and two line types it has no case for
Types == {"trendline", "horizontal", "vertical", "rectangle"}

\* the type strings used where only drawings that come to exist matter
DrawnTypes == {"trendline", "rectangle"}

(***************************************************************************)
(* State.                                                                  *)
(***************************************************************************)
VARIABLES
    lines,            \* this.drawings.lines
    shapes,           \* this.drawings.shapes
    texts,            \* this.drawings.texts
    activeDrawing,    \* this.activeDrawing (NoDrawing models null)
    canvas,           \* this.canvas: "none" (null), "attached", "detached"
    ctx,              \* this.ctx: TRUE iff it holds a 2d context (FALSE models null)
    surface,          \* what has been issued on ctx since the last clearRect
    visible,          \* what the host's time scale and price scale map
    now,              \* Date.now()
    rangeSubs,        \* callbacks subscribed to the visible-range change
    resizeListeners,  \* 'resize' listeners installed on window
    constructed,      \* number of DrawingManager objects constructed
    lastOp,           \* the operation or event that ran last
    redrawn,          \* TRUE iff the last operation ran redraw() past its guard
    before,           \* lengths of lines and shapes when the last operation began
    script,           \* the calls made since the last startDrawing call
    closePrices,      \* the price series handed to an indicator function
    times,            \* the time sequence handed with it
    config,           \* the periods handed with it
    result,           \* what the indicator function returned
    pc,               \* which indicator function is to be called or has returned
    ui,               \* the chart component's popup and range selection state and refs
    mount,            \* how often the component's mount effect has run
    loads,            \* for each run of the effect, how far its loadData call is
    loading,          \* the component's loading state
    error,            \* the component's error state: the run whose load set it, 0 for null
    seriesData,       \* for each run of the effect, what its candlestick series holds
    chartOp           \* the last event handled by the chart component

\* the fields of the drawing manager and of its host
drawingVars == <<lines, shapes, texts, activeDrawing, canvas, ctx, surface, visible, now,
                 rangeSubs, resizeListeners, constructed, lastOp, redrawn, before,
                 script>>

\* the arguments and the result of an indicator call
indicatorVars == <<closePrices, times, config, result, pc>>

\* the state of the chart component
chartVars == <<ui, mount, loads, loading, error, seriesData, chartOp>>

vars == <<drawingVars, indicatorVars, chartVars>>

\* this.activeDrawing = null
NoDrawing == [id |-> <<"", 0>>, type |-> "null", points |-> <<>>,
              color |-> "", lineWidth |-> 0, fillColor |-> ""]

\* no startDrawing call is being followed
NoScript == [phase |-> "idle", type |-> "null", first |-> <<>>, last |-> <<>>,
             moves |-> 0]

\* the lengths of the two collections
Lengths(ls, ss) == <<Len(ls), Len(ss)>>

\* const id = `drawing-${Date.now()}`
DrawingId(t) == <<"drawing-", t>>

(***************************************************************************)
(* startDrawing / continueDrawing / finishDrawing as functions of the      *)
(* fields they read and write.                                             *)
(***************************************************************************)
\* the case labels of startDrawing's first group, and the types finishDrawing
\* and redraw compare against to choose the Line collection
IsLineType(type) == type \in {"trendline", "horizontal-line", "vertical-line", "ray"}

\* the case labels of startDrawing's second group
IsShapeType(type) == type \in {"rectangle", "circle", "triangle"}

\* the value of this.activeDrawing after startDrawing(type, point) at time t;
\* a type that matches no case label leaves the field as it was
startDrawing(ad, type, point, t) ==
    IF IsLineType(type)
    THEN [id |-> DrawingId(t), type |-> type, points |-> <<point>>,
          color |-> "#f7931a", lineWidth |-> 2, fillColor |-> ""]
    ELSE IF IsShapeType(type)
    THEN [id |-> DrawingId(t), type |-> type, points |-> <<point>>,
          color |-> "#f7931a", lineWidth |-> 0,
          fillColor |-> "rgba(247, 147, 26, 0.1)"]
    ELSE ad

\* continueDrawing without its length test: every point is pushed
continueDrawingAlwaysPush(ad, point) ==
    IF ad = NoDrawing THEN ad
    ELSE [ad EXCEPT !.points = Append(@, point)]

\* continueDrawing writing points[0] where the code writes points[1]
continueDrawingOverwritesFirst(ad, point) ==
    IF ad = NoDrawing THEN ad
    ELSE IF Len(ad.points) = 1
    THEN [ad EXCEPT !.points = Append(@, point)]
    ELSE [ad EXCEPT !.points[1] = point]

\* the value of this.activeDrawing after continueDrawing(point)
continueDrawing(ad, point) ==
    IF ad = NoDrawing THEN ad
    ELSE IF Len(ad.points) = 1
    THEN [ad EXCEPT !.points = Append(@, point)]
    ELSE [ad EXCEPT !.points = [i \in 1..(IF Len(@) < 2 THEN 2 ELSE Len(@)) |->
                                   IF i = 2 THEN point ELSE @[i]]]

\* TRUE iff finishDrawing pushes the active drawing to a collection
Persists(ad) == ad # NoDrawing /\ Len(ad.points) >= 2

\* finishDrawing without its points.length >= 2 test
finishLinesAnyLength(ls, ad) ==
    IF ad # NoDrawing /\ IsLineType(ad.type) THEN Append(ls, ad) ELSE ls

\* this.drawings.lines after finishDrawing()
finishLines(ls, ad) ==
    IF Persists(ad) /\ IsLineType(ad.type) THEN Append(ls, ad) ELSE ls

\* this.drawings.shapes after finishDrawing()
finishShapes(ss, ad) ==
    IF Persists(ad) /\ ~IsLineType(ad.type) THEN Append(ss, ad) ELSE ss

(***************************************************************************)
(* The render pipeline.  A draw operation is recorded per primitive, with  *)
(* the collection and position it was read from; pixel values are left out.*)
(***************************************************************************)
NoCoord == [ok |-> FALSE, x |-> 0, y |-> 0]

\* the host maps every time and every price
AllMapped == [times |-> Times, prices |-> TRUE, throws |-> FALSE]

\* the states of the host's mapper: timeToCoordinate gives a coordinate for
\* the times in .times and null for the others, priceToCoordinate gives null
\* unless .prices, and the calls throw when .throws
MapperStates ==
    {[times |-> ts, prices |-> TRUE, throws |-> FALSE] : ts \in SUBSET Times}
    \cup {[times |-> Times, prices |-> FALSE, throws |-> FALSE],
          [times |-> Times, prices |-> TRUE, throws |-> TRUE]}

\* getCoordinates: null when a call throws (the catch block), when x is null
\* or when y is null
getCoordinates(point, vis) ==
    IF vis.throws THEN NoCoord
    ELSE IF point.time \notin vis.times \/ ~vis.prices THEN NoCoord
    ELSE [ok |-> TRUE, x |-> point.time, y |-> point.price]

\* this.ctx.clearRect(0, 0, width, height)
ClearRect == [fn |-> "clearRect", src |-> "canvas", idx |-> 0, d |-> NoDrawing]

\* drawLine testing coord1 alone
drawLineChecksFirstOnly(line, src, idx, vis) ==
    IF Len(line.points) < 2 THEN <<>>
    ELSE IF ~getCoordinates(line.points[1], vis).ok THEN <<>>
    ELSE <<[fn |-> "drawLine", src |-> src, idx |-> idx, d |-> line]>>

\* drawLine: the operations issued for one line
drawLine(line, src, idx, vis) ==
    IF Len(line.points) < 2 THEN <<>>
    ELSE IF ~getCoordinates(line.points[1], vis).ok
            \/ ~getCoordinates(line.points[2], vis).ok THEN <<>>
    ELSE <<[fn |-> "drawLine", src |-> src, idx |-> idx, d |-> line]>>

\* drawShape: the operations issued for one shape
drawShape(shape, src, idx, vis) ==
    IF Len(shape.points) < 2 THEN <<>>
    ELSE IF ~getCoordinates(shape.points[1], vis).ok
            \/ ~getCoordinates(shape.points[2], vis).ok THEN <<>>
    ELSE <<[fn |-> "drawShape", src |-> src, idx |-> idx, d |-> shape]>>

\* this.drawings.lines.forEach((line) => this.drawLine(line)), from position i
RECURSIVE DrawLines(_, _, _)
DrawLines(ls, i, vis) ==
    IF i > Len(ls) THEN <<>>
    ELSE drawLine(ls[i], "lines", i, vis) \o DrawLines(ls, i + 1, vis)

\* this.drawings.shapes.forEach((shape) => this.drawShape(shape)), from i
RECURSIVE DrawShapes(_, _, _)
DrawShapes(ss, i, vis) ==
    IF i > Len(ss) THEN <<>>
    ELSE drawShape(ss[i], "shapes", i, vis) \o DrawShapes(ss, i + 1, vis)

\* the "Draw active drawing" block of redraw
DrawActive(ad, vis) ==
    IF ad = NoDrawing THEN <<>>
    ELSE IF IsLineType(ad.type) THEN drawLine(ad, "active", 1, vis)
    ELSE drawShape(ad, "active", 1, vis)

\* the test that opens redraw: it goes on iff this.ctx and this.canvas are set
redrawRuns(cx, cv) == cx /\ cv # "none"

\* redraw drawing the shapes before the lines
redrawShapesFirst(cx, cv, old, ls, ss, ad, vis) ==
    IF ~redrawRuns(cx, cv) THEN old
    ELSE <<ClearRect>> \o DrawShapes(ss, 1, vis) \o DrawLines(ls, 1, vis)
                       \o DrawActive(ad, vis)

\* redraw without its test of ctx and canvas
redrawNoGuard(cx, cv, old, ls, ss, ad, vis) ==
    <<ClearRect>> \o DrawLines(ls, 1, vis) \o DrawShapes(ss, 1, vis)
                  \o DrawActive(ad, vis)

\* redraw(): the content of the surface after it, old being the content before
redraw(cx, cv, old, ls, ss, ad, vis) ==
    IF ~redrawRuns(cx, cv) THEN old
    ELSE <<ClearRect>> \o DrawLines(ls, 1, vis) \o DrawShapes(ss, 1, vis)
                       \o DrawActive(ad, vis)

\* this.drawings.shapes after removeLastDrawing()
removeLastShapes(ls, ss) ==
    IF Len(ss) > 0 THEN SubSeq(ss, 1, Len(ss) - 1) ELSE ss

\* removeLastDrawing popping a line whether or not a shape was popped
removeLastLinesAlways(ls, ss) ==
    IF Len(ls) > 0 THEN SubSeq(ls, 1, Len(ls) - 1) ELSE ls

\* this.drawings.lines after removeLastDrawing()
removeLastLines(ls, ss) ==
    IF Len(ss) > 0 THEN ls
    ELSE IF Len(ls) > 0 THEN SubSeq(ls, 1, Len(ls) - 1) ELSE ls

\* clearAll leaving a collection as it is
clearAllKeeps(collection) == collection

\* the value clearAll() assigns to each collection
clearAll(collection) == <<>>

\* clearAll resetting the drawing in progress as well
clearAllDropsActiveDrawing(ad) == NoDrawing

\* this.activeDrawing after clearAll(): not assigned
clearAllActiveDrawing(ad) == ad

\* this.activeDrawing after removeLastDrawing(): not assigned
removeLastActiveDrawing(ad) == ad

\* this.canvas after destroy(): the element is removed from its parent
destroyCanvas(cv) == IF cv = "attached" THEN "detached" ELSE cv

\* this.drawings.lines after destroy()
destroyLines(ls) == ls

\* this.drawings.shapes after destroy()
destroyShapes(ss) == ss

\* the subscriptions and listeners left installed by destroy()
destroySubscriptions(n) == n

(***************************************************************************)
(* The charts a manager is constructed on, and what setupCanvas makes of   *)
(* them.                                                                   *)
(***************************************************************************)
\* the chart has no _options (reading its container throws a TypeError), has
\* options without a container, has a container whose canvas gives no 2d
\* context, or has a container whose canvas gives one
Charts == {"no options", "no container", "no context", "ready"}

\* new DrawingManager(chart, series) throws: this.chart._options is undefined
constructorThrows(chart) == chart = "no options"

\* this.canvas after setupCanvas: created and appended unless the container
\* is missing
setupCanvas(chart) == IF chart = "no container" THEN "none" ELSE "attached"

\* this.ctx after setupCanvas: what getContext('2d') returned
getContext(chart) == chart = "ready"

\* the callbacks setupCanvas installs on the time scale, and the listeners it
\* installs on window: one unless it returned at the missing container
setupSubscriptions(chart) == IF chart = "no container" THEN 0 ELSE 1

(***************************************************************************)
(* Initial state: a manager has just been constructed on a chart whose     *)
(* container is present (canvas attached, with or without a 2d context) or *)
(* missing (setup aborted).                                                *)
(***************************************************************************)
DrawingInit ==
    /\ lines = <<>>
    /\ shapes = <<>>
    /\ texts = <<>>
    /\ activeDrawing = NoDrawing
    /\ \E chart \in Charts :
          /\ ~constructorThrows(chart)
          /\ canvas = setupCanvas(chart)
          /\ ctx = getContext(chart)
    /\ surface = <<>>
    /\ visible = AllMapped
    /\ now = 0
    /\ rangeSubs = (IF canvas = "attached" THEN 1 ELSE 0)
    /\ resizeListeners = (IF canvas = "attached" THEN 1 ELSE 0)
    /\ constructed = 1
    /\ lastOp = "construct"
    /\ redrawn = FALSE
    /\ before = <<0, 0>>
    /\ script = NoScript

\* the default periods: calculateRSI's period = 14 and calculateMACD's
\* fastPeriod = 12, slowPeriod = 26, signalPeriod = 9
DefaultConfig == [period |-> 14, fastPeriod |-> 12, slowPeriod |-> 26,
                  signalPeriod |-> 9]

\* no indicator function is called
IndicatorsIdle ==
    /\ closePrices = <<>>
    /\ times = <<>>
    /\ config = DefaultConfig
    /\ result = <<>>
    /\ pc = "idle"

\* coordinateToTime gave no time (null; a time of 0 is as false in a test)
NoTime == 0

\* no range selected yet
NoRange == [startTime |-> NoTime, endTime |-> NoTime]

\* the popup and selection state of a component just created: useState(...)
\* and useRef(...) initial values
InitialUi ==
    [isSelectingRangeRef |-> FALSE, firstClickTimeRef |-> NoTime,
     isSelectingRange |-> FALSE, firstClickTime |-> NoTime,
     showPopup |-> FALSE, popupData |-> NoTime,
     showRangePopup |-> FALSE, selectedRangeData |-> NoRange]

\* the chart component is created and its mount effect has not run
ChartIdle ==
    /\ ui = InitialUi
    /\ mount = 0
    /\ loads = [g \in 1..MaxMounts |-> "none"]
    /\ loading = FALSE
    /\ error = 0
    /\ seriesData = [g \in 1..MaxMounts |-> "empty"]
    /\ chartOp = [name |-> "create", time |-> NoTime]

Init == DrawingInit /\ IndicatorsIdle /\ ChartIdle

(***************************************************************************)
(* Operations of the manager.                                              *)
(***************************************************************************)
\* new DrawingManager(chart, series), whatever became of the manager before:
\* the fields below are those of the new manager, and the one before keeps
\* its callback and its listener.  When the constructor throws there is no
\* new manager and the one before stays as it is.
Construct(chart) ==
    /\ before' = Lengths(lines, shapes)
    /\ constructed < MaxManagers
    /\ lastOp' = "construct"
    /\ redrawn' = FALSE
    /\ IF constructorThrows(chart)
       THEN UNCHANGED <<lines, shapes, texts, activeDrawing, canvas, ctx, surface,
                        rangeSubs, resizeListeners, constructed, script>>
       ELSE /\ lines' = <<>>
            /\ shapes' = <<>>
            /\ texts' = <<>>
            /\ activeDrawing' = NoDrawing
            /\ canvas' = setupCanvas(chart)
            /\ ctx' = getContext(chart)
            /\ surface' = <<>>
            /\ rangeSubs' = rangeSubs + setupSubscriptions(chart)
            /\ resizeListeners' = resizeListeners + setupSubscriptions(chart)
            /\ constructed' = constructed + 1
            /\ script' = NoScript
    /\ UNCHANGED <<visible, now>>
    /\ UNCHANGED indicatorVars
    /\ UNCHANGED chartVars

StartDrawing(type, point) ==
    /\ before' = Lengths(lines, shapes)
    /\ activeDrawing' = startDrawing(activeDrawing, type, point, now)
    /\ script' = [phase |-> "started", type |-> type, first |-> <<point>>,
                  last |-> <<>>, moves |-> 0]
    /\ lastOp' = "start"
    /\ redrawn' = FALSE
    /\ UNCHANGED <<lines, shapes, texts, canvas, ctx, surface, visible, now,
                   rangeSubs, resizeListeners, constructed>>
    /\ UNCHANGED indicatorVars
    /\ UNCHANGED chartVars

ContinueDrawing(point) ==
    /\ before' = Lengths(lines, shapes)
    /\ activeDrawing' = continueDrawing(activeDrawing, point)
    /\ surface' = IF activeDrawing = NoDrawing THEN surface
                  ELSE redraw(ctx, canvas, surface, lines, shapes, activeDrawing', visible)
    /\ redrawn' = (activeDrawing # NoDrawing /\ redrawRuns(ctx, canvas))
    /\ script' = IF script.phase \in {"started", "continued"}
                 THEN [script EXCEPT !.phase = "continued", !.last = <<point>>,
                                    !.moves = IF @ < 2 THEN @ + 1 ELSE @]
                 ELSE NoScript
    /\ lastOp' = "continue"
    /\ UNCHANGED <<lines, shapes, texts, canvas, ctx, visible, now,
                   rangeSubs, resizeListeners, constructed>>
    /\ UNCHANGED indicatorVars
    /\ UNCHANGED chartVars

FinishDrawing ==
    /\ before' = Lengths(lines, shapes)
    /\ Persists(activeDrawing) => Len(lines) + Len(shapes) < MaxDrawings
    /\ lines' = finishLines(lines, activeDrawing)
    /\ shapes' = finishShapes(shapes, activeDrawing)
    /\ activeDrawing' = NoDrawing
    /\ surface' = IF activeDrawing = NoDrawing THEN surface
                  ELSE redraw(ctx, canvas, surface, lines', shapes', activeDrawing', visible)
    /\ redrawn' = (activeDrawing # NoDrawing /\ redrawRuns(ctx, canvas))
    /\ script' = IF script.phase \in {"started", "continued"}
                 THEN [script EXCEPT !.phase = "finished"]
                 ELSE NoScript
    /\ lastOp' = "finish"
    /\ UNCHANGED <<texts, canvas, ctx, visible, now, rangeSubs, resizeListeners, constructed>>
    /\ UNCHANGED indicatorVars
    /\ UNCHANGED chartVars

ClearAll ==
    /\ before' = Lengths(lines, shapes)
    /\ lines' = clearAll(lines)
    /\ shapes' = clearAll(shapes)
    /\ texts' = clearAll(texts)
    /\ activeDrawing' = clearAllActiveDrawing(activeDrawing)
    /\ surface' = redraw(ctx, canvas, surface, lines', shapes', activeDrawing', visible)
    /\ redrawn' = redrawRuns(ctx, canvas)
    /\ script' = NoScript
    /\ lastOp' = "clearAll"
    /\ UNCHANGED <<canvas, ctx, visible, now, rangeSubs, resizeListeners, constructed>>
    /\ UNCHANGED indicatorVars
    /\ UNCHANGED chartVars

RemoveLastDrawing ==
    /\ before' = Lengths(lines, shapes)
    /\ shapes' = removeLastShapes(lines, shapes)
    /\ lines' = removeLastLines(lines, shapes)
    /\ activeDrawing' = removeLastActiveDrawing(activeDrawing)
    /\ surface' = redraw(ctx, canvas, surface, lines', shapes', activeDrawing', visible)
    /\ redrawn' = redrawRuns(ctx, canvas)
    /\ script' = NoScript
    /\ lastOp' = "removeLast"
    /\ UNCHANGED <<texts, canvas, ctx, visible, now, rangeSubs, resizeListeners,
                   constructed>>
    /\ UNCHANGED indicatorVars
    /\ UNCHANGED chartVars

Destroy ==
    /\ before' = Lengths(lines, shapes)
    /\ canvas' = destroyCanvas(canvas)
    /\ lines' = destroyLines(lines)
    /\ shapes' = destroyShapes(shapes)
    /\ rangeSubs' = destroySubscriptions(rangeSubs)
    /\ resizeListeners' = destroySubscriptions(resizeListeners)
    /\ redrawn' = FALSE
    /\ script' = NoScript
    /\ lastOp' = "destroy"
    /\ UNCHANGED <<texts, activeDrawing, ctx, surface, visible, now, constructed>>
    /\ UNCHANGED indicatorVars
    /\ UNCHANGED chartVars

(***************************************************************************)
(* Events of the host.                                                     *)
(***************************************************************************)
\* the callback given to subscribeVisibleLogicalRangeChange; it exists iff
\* setupCanvas ran to its end; vis is the state of the host's mapper then
VisibleRangeChange(vis) ==
    /\ before' = Lengths(lines, shapes)
    /\ visible' = vis
    /\ surface' = redraw(ctx, canvas, surface, lines, shapes, activeDrawing, vis)
    /\ redrawn' = redrawRuns(ctx, canvas)
    /\ lastOp' = "rangeChange"
    /\ UNCHANGED <<lines, shapes, texts, activeDrawing, canvas, ctx, now, rangeSubs,
                   resizeListeners, constructed, script>>
    /\ UNCHANGED indicatorVars
    /\ UNCHANGED chartVars

\* the 'resize' listener; it exists iff setupCanvas ran to its end
WindowResize ==
    /\ before' = Lengths(lines, shapes)
    /\ surface' = redraw(ctx, canvas, surface, lines, shapes, activeDrawing, visible)
    /\ redrawn' = redrawRuns(ctx, canvas)
    /\ lastOp' = "resize"
    /\ UNCHANGED <<lines, shapes, texts, activeDrawing, canvas, ctx, visible, now,
                   rangeSubs, resizeListeners, constructed, script>>
    /\ UNCHANGED indicatorVars
    /\ UNCHANGED chartVars

\* the tools of the toolbar that start a drawing, and the crosshair
ToolbarTools == {"crosshair", "trendline", "rectangle", "circle"}

\* a tool is selected in the toolbar: the chart's onDrawingToolSelect callback
\* logs the tool and calls nothing of the manager
SelectTool(tool) ==
    /\ before' = Lengths(lines, shapes)
    /\ lastOp' = "selectTool"
    /\ redrawn' = FALSE
    /\ UNCHANGED <<lines, shapes, texts, activeDrawing, canvas, ctx, surface, visible, now,
                   rangeSubs, resizeListeners, constructed, script>>
    /\ UNCHANGED indicatorVars
    /\ UNCHANGED chartVars

\* the clock read by Date.now() advances
Tick ==
    /\ now < MaxClock
    /\ now' = now + 1
    /\ UNCHANGED <<lines, shapes, texts, activeDrawing, canvas, ctx, surface, visible,
                   rangeSubs, resizeListeners, constructed, lastOp, redrawn, before,
                   script>>
    /\ UNCHANGED indicatorVars
    /\ UNCHANGED chartVars

(***************************************************************************)
(* The drawing model alone: the six operations of the manager, called in   *)
(* any order on one manager, with the host's view and clock at rest.       *)
(***************************************************************************)
NextModel ==
    \/ \E type \in Types, point \in Points : StartDrawing(type, point)
    \/ \E point \in Points : ContinueDrawing(point)
    \/ FinishDrawing
    \/ ClearAll
    \/ RemoveLastDrawing
    \/ Destroy

SpecModel == Init /\ [][NextModel]_vars

(***************************************************************************)
(* The render pipeline: drawings are made and removed while the host       *)
(* changes the visible range and resizes the window.                       *)
(***************************************************************************)
NextRender ==
    \/ \E type \in DrawnTypes, point \in Points : StartDrawing(type, point)
    \/ \E point \in Points : ContinueDrawing(point)
    \/ FinishDrawing
    \/ RemoveLastDrawing
    \/ \E vis \in MapperStates : VisibleRangeChange(vis)
    \/ WindowResize

SpecRender == Init /\ [][NextRender]_vars

(***************************************************************************)
(* The lifecycle: managers are constructed and destroyed, the newest       *)
(* draws, and the host keeps sending its events.                           *)
(***************************************************************************)
NextLife ==
    \/ \E chart \in Charts : Construct(chart)
    \/ \E type \in DrawnTypes, point \in Points : StartDrawing(type, point)
    \/ \E point \in Points : ContinueDrawing(point)
    \/ FinishDrawing
    \/ Destroy
    \/ \E vis \in {AllMapped, [AllMapped EXCEPT !.times = {}]} : VisibleRangeChange(vis)
    \/ WindowResize

SpecLife == Init /\ [][NextLife]_vars

(***************************************************************************)
(* The ids: drawings are made while the clock read by Date.now() advances. *)
(***************************************************************************)
NextIds ==
    \/ \E type \in DrawnTypes, point \in Points : StartDrawing(type, point)
    \/ \E point \in Points : ContinueDrawing(point)
    \/ FinishDrawing
    \/ Tick

SpecIds == Init /\ [][NextIds]_vars

(***************************************************************************)
(* The toolbar: drawings are made while tools are selected in the toolbar. *)
(***************************************************************************)
NextTools ==
    \/ \E type \in DrawnTypes, point \in Points : StartDrawing(type, point)
    \/ \E point \in Points : ContinueDrawing(point)
    \/ FinishDrawing
    \/ \E tool \in ToolbarTools : SelectTool(tool)

SpecTools == Init /\ [][NextTools]_vars

(***************************************************************************)
(* The indicator functions of src/unnamed/part_001 (calculateEMA,          *)
(* calculateMACD) and src/src/utils/rsiIndicator.ts (calculateRSI).        *)
(*                                                                         *)
(* A value of the program is a record: null, undefined, NaN, an infinity   *)
(* of sign s, or a finite number s * M * 2^e, as the program's numbers     *)
(* are: IEEE 754 binary64.  M is a natural number of at most 53 bits,      *)
(* written in m as its digits to the base 2^15, lowest first, with no zero *)
(* digit on top; M is odd or 0 (m = <<>>, e = 0), so that a number has one *)
(* record.  The operators +, -, * and / round their exact result to the    *)
(* nearest such number, ties to the even M.                                *)
(***************************************************************************)
Null == [k |-> "null", s |-> 1, m |-> <<>>, e |-> 0]

Undefined == [k |-> "undefined", s |-> 1, m |-> <<>>, e |-> 0]

NaN == [k |-> "nan", s |-> 1, m |-> <<>>, e |-> 0]

\* Infinity (s = 1) and -Infinity (s = -1)
Infinity(s) == [k |-> "inf", s |-> s, m |-> <<>>, e |-> 0]

\* 0 (s = 1) and -0 (s = -1)
Zero(s) == [k |-> "num", s |-> s, m |-> <<>>, e |-> 0]

Abs(i) == IF i < 0 THEN 0 - i ELSE i

Min(a, b) == IF a < b THEN a ELSE b

Max(a, b) == IF a < b THEN b ELSE a

\* the base of the digits of M
Base == 32768

\* the bits of a digit
DigitBits == 15

\* the bits of M in a number: the precision of binary64
Precision == 53

\* the exponent of the lowest bit a number can have: that of 2^-1074
MinExponent == 0 - 1074

\* every finite number is below 2^MaxExponent
MaxExponent == 1024

\* 2^n for n in 0..15
Pow2(n) == <<1, 2, 4, 8, 16, 32, 64, 128, 256, 512, 1024, 2048, 4096, 8192,
             16384, 32768>>[n + 1]

\* the digit of position i, 0 above the top
Digit(x, i) == IF i <= Len(x) THEN x[i] ELSE 0

\* x without zero digits on top
RECURSIVE Trim(_)
Trim(x) ==
    IF Len(x) > 0 /\ x[Len(x)] = 0 THEN Trim(SubSeq(x, 1, Len(x) - 1)) ELSE x

\* the digits of the natural number that the integers in columns sum to,
\* column i weighing Base^(i-1): limbs holds the digits found so far
RECURSIVE CarryLoop(_, _, _)
CarryLoop(columns, limbs, carry) ==
    LET i == Len(limbs) + 1
        t == Digit(columns, i) + carry
    IN  IF i > Len(columns) /\ carry = 0 THEN limbs
        ELSE CarryLoop(columns, Append(limbs, t % Base), t \div Base)

Carry(columns) == Trim(CarryLoop(columns, <<>>, 0))

\* x + y
BigAdd(x, y) ==
    Carry([i \in 1..Max(Len(x), Len(y)) |-> Digit(x, i) + Digit(y, i)])

\* x - y, for x >= y
BigSub(x, y) ==
    Carry([i \in 1..Max(Len(x), Len(y)) |-> Digit(x, i) - Digit(y, i)])

\* x * d for a digit d
BigTimesDigit(x, d) == Carry([i \in 1..Len(x) |-> x[i] * d])

\* x * Base^n
ShiftDigits(x, n) == IF x = <<>> THEN x ELSE [i \in 1..n |-> 0] \o x

\* x * y: sum holds x * (the digits of y done so far)
RECURSIVE BigMulLoop(_, _, _, _)
BigMulLoop(x, y, done, sum) ==
    IF done = Len(y) THEN sum
    ELSE BigMulLoop(x, y, done + 1,
                    BigAdd(sum, ShiftDigits(BigTimesDigit(x, y[done + 1]), done)))

BigMul(x, y) == BigMulLoop(x, y, 0, <<>>)

\* -1, 0 or 1 as x is below, equal to or above y: i is the highest position
\* not yet compared
RECURSIVE CompareFrom(_, _, _)
CompareFrom(x, y, i) ==
    IF i = 0 THEN 0
    ELSE IF x[i] < y[i] THEN 0 - 1
    ELSE IF x[i] > y[i] THEN 1
    ELSE CompareFrom(x, y, i - 1)

Compare(x, y) ==
    IF Len(x) < Len(y) THEN 0 - 1
    ELSE IF Len(x) > Len(y) THEN 1
    ELSE CompareFrom(x, y, Len(x))

\* x * 2^n
ShiftLeft(x, n) ==
    ShiftDigits(Carry([i \in 1..Len(x) |-> x[i] * Pow2(n % DigitBits)]),
                n \div DigitBits)

\* x \div 2^n
ShiftRight(x, n) ==
    LET q == n \div DigitBits
        r == n % DigitBits
    IN  IF q >= Len(x) THEN <<>>
        ELSE Trim([i \in 1..(Len(x) - q) |->
                      (x[i + q] \div Pow2(r))
                      + (Digit(x, i + q + 1) % Pow2(r)) * Pow2(DigitBits - r)])

\* the bit of weight 2^n in x
Bit(x, n) == (Digit(x, n \div DigitBits + 1) \div Pow2(n % DigitBits)) % 2

\* x is a multiple of 2^n
LowBitsZero(x, n) ==
    /\ \A i \in 1..Min(n \div DigitBits, Len(x)) : x[i] = 0
    /\ Digit(x, n \div DigitBits + 1) % Pow2(n % DigitBits) = 0

\* the number of bits of x: 0 for 0
BitLength(x) ==
    IF x = <<>> THEN 0
    ELSE (Len(x) - 1) * DigitBits
         + (CHOOSE n \in 1..DigitBits : Pow2(n - 1) <= x[Len(x)] /\ x[Len(x)] < Pow2(n))

\* the number of zero bits below the lowest set bit of x, x > 0
TrailingZeros(x) ==
    LET i == CHOOSE j \in 1..Len(x) : x[j] # 0 /\ \A h \in 1..(j - 1) : x[h] = 0
    IN  (i - 1) * DigitBits
        + (CHOOSE n \in 0..(DigitBits - 1) :
              x[i] % Pow2(n) = 0 /\ x[i] % Pow2(n + 1) # 0)

\* the digit q of the quotient rem \div v, for rem < v * Base and v with its
\* top bit set in its top digit: guess is not below q
RECURSIVE QuotientDigit(_, _, _)
QuotientDigit(rem, v, guess) ==
    IF Compare(BigTimesDigit(v, guess), rem) > 0
    THEN QuotientDigit(rem, v, guess - 1)
    ELSE guess

\* long division of u by v, v as for QuotientDigit: quotient holds the
\* digits found for the top Len(quotient) digits of u, rem what they left
RECURSIVE DivideLoop(_, _, _, _)
DivideLoop(u, v, quotient, rem) ==
    LET j == Len(u) - Len(quotient)
        r == Trim(<<u[j]>> \o rem)
        n == Len(v)
        guess == Min(Base - 1, (Digit(r, n + 1) * Base + Digit(r, n)) \div v[n])
        q == QuotientDigit(r, v, guess)
    IN  IF j = 0 THEN [quotient |-> Trim(quotient), exact |-> rem = <<>>]
        ELSE DivideLoop(u, v, <<q>> \o quotient, BigSub(r, BigTimesDigit(v, q)))

\* u \div v, and whether v divides u, for v > 0
Divide(u, v) ==
    LET d == DigitBits - (BitLength(v) - (Len(v) - 1) * DigitBits)
    IN  DivideLoop(ShiftLeft(u, d), ShiftLeft(v, d), <<>>, <<>>)

\* the number s * M * 2^E for M of at most Precision bits and
\* E >= MinExponent: Infinity from 2^MaxExponent on
Finite(s, M, E) ==
    IF M = <<>> THEN Zero(s)
    ELSE IF BitLength(M) + E > MaxExponent THEN Infinity(s)
    ELSE LET z == TrailingZeros(M)
         IN  [k |-> "num", s |-> s, m |-> ShiftRight(M, z), e |-> E + z]

\* the number nearest to s * (M + f) * 2^E, ties to even, where f = 0 or, with
\* more set, 0 < f < 1
RoundToNearest(s, M, E, more) ==
    LET drop == Max(BitLength(M) - Precision, MinExponent - E)
        kept == ShiftRight(M, drop)
        half == Bit(M, drop - 1) = 1
        below == more \/ ~LowBitsZero(M, drop - 1)
        up == half /\ (below \/ Bit(kept, 0) = 1)
    IN  IF drop <= 0 THEN Finite(s, M, E)
        ELSE Finite(s, IF up THEN BigAdd(kept, <<1>>) ELSE kept, E + drop)

\* the digits of a natural number
RECURSIVE Digits(_)
Digits(i) == IF i = 0 THEN <<>> ELSE <<i % Base>> \o Digits(i \div Base)

\* the number that an integer literal or an integer of a number[] is
Num(i) == Finite(IF i < 0 THEN 0 - 1 ELSE 1, Digits(Abs(i)), 0)

IsNum(x) == x.k = "num"

\* the number a value is in arithmetic: null is 0, undefined is NaN
ToNumber(x) ==
    IF x.k = "null" THEN Zero(1) ELSE IF x.k = "undefined" THEN NaN ELSE x

\* -x
Negate(x) == IF x.k \in {"num", "inf"} THEN [x EXCEPT !.s = 0 - x.s] ELSE x

\* x is 0 or -0
IsZero(x) == IsNum(x) /\ x.m = <<>>

\* the exponent of the bit above the top bit of a finite x # 0
Top(x) == x.e + BitLength(x.m)

\* a + b for finite a and b, neither 0
AddFinite(a, b) ==
    LET E == Min(a.e, b.e)
        A == ShiftLeft(a.m, a.e - E)
        B == ShiftLeft(b.m, b.e - E)
        c == Compare(A, B)
    IN  IF Top(a) - Top(b) > Precision + 11 THEN a
        ELSE IF Top(b) - Top(a) > Precision + 11 THEN b
        ELSE IF a.s = b.s THEN RoundToNearest(a.s, BigAdd(A, B), E, FALSE)
        ELSE IF c = 0 THEN Zero(1)
        ELSE IF c > 0 THEN RoundToNearest(a.s, BigSub(A, B), E, FALSE)
        ELSE RoundToNearest(b.s, BigSub(B, A), E, FALSE)

\* x + y
Plus(x, y) ==
    IF x.k = "nan" \/ y.k = "nan" THEN NaN
    ELSE IF x.k = "inf" THEN (IF y.k = "inf" /\ y.s # x.s THEN NaN ELSE x)
    ELSE IF y.k = "inf" THEN y
    ELSE IF IsZero(x) THEN (IF IsZero(y) THEN Zero(IF x.s = y.s THEN x.s ELSE 1)
                            ELSE y)
    ELSE IF IsZero(y) THEN x
    ELSE AddFinite(x, y)

\* a + b
Add(a, b) == Plus(ToNumber(a), ToNumber(b))

\* a - b
Sub(a, b) == Plus(ToNumber(a), Negate(ToNumber(b)))

\* x * y
Multiply(x, y) ==
    IF x.k = "nan" \/ y.k = "nan" THEN NaN
    ELSE IF x.k = "inf" \/ y.k = "inf"
    THEN (IF IsZero(x) \/ IsZero(y) THEN NaN ELSE Infinity(x.s * y.s))
    ELSE IF IsZero(x) \/ IsZero(y) THEN Zero(x.s * y.s)
    ELSE RoundToNearest(x.s * y.s, BigMul(x.m, y.m), x.e + y.e, FALSE)

\* a * b
Mul(a, b) == Multiply(ToNumber(a), ToNumber(b))

\* x / y for finite x and y, neither 0: the quotient of the M's is taken to
\* at least Precision + 3 bits
DivideFinite(x, y) ==
    LET n == Precision + 3 + BitLength(y.m) - BitLength(x.m)
        q == Divide(ShiftLeft(x.m, n), y.m)
    IN  RoundToNearest(x.s * y.s, q.quotient, x.e - y.e - n, ~q.exact)

\* x / y
Quotient(x, y) ==
    IF x.k = "nan" \/ y.k = "nan" THEN NaN
    ELSE IF x.k = "inf" THEN (IF y.k = "inf" THEN NaN ELSE Infinity(x.s * y.s))
    ELSE IF y.k = "inf" THEN Zero(x.s * y.s)
    ELSE IF IsZero(y) THEN (IF IsZero(x) THEN NaN ELSE Infinity(x.s * y.s))
    ELSE IF IsZero(x) THEN Zero(x.s * y.s)
    ELSE DivideFinite(x, y)

\* a / b
Div(a, b) == Quotient(ToNumber(a), ToNumber(b))

\* change > 0
Positive(x) ==
    LET v == ToNumber(x)
    IN  v.k \in {"num", "inf"} /\ v.s = 1 /\ ~IsZero(v)

\* a <= b
LessEq(a, b) ==
    LET x == ToNumber(a)
        y == ToNumber(b)
    IN  /\ x.k # "nan"
        /\ y.k # "nan"
        /\ x = y \/ ~Positive(Plus(x, Negate(y)))

\* Math.abs(x)
MathAbs(x) ==
    LET v == ToNumber(x)
    IN  IF v.k = "nan" THEN NaN ELSE [v EXCEPT !.s = 1]

\* Math.round(x): the integer nearest to x, the greater of two as near; a
\* result of 0 keeps the sign of x
MathRound(x) ==
    LET v == ToNumber(x)
        whole == ShiftRight(v.m, 0 - v.e)
        half == Bit(v.m, 0 - v.e - 1) = 1
        above == half /\ ~LowBitsZero(v.m, 0 - v.e - 1)
        up == IF v.s = 1 THEN half ELSE above
    IN  IF v.k # "num" \/ v.e >= 0 THEN v
        ELSE Finite(v.s, IF up THEN BigAdd(whole, <<1>>) ELSE whole, 0)

\* the truth value of x in a condition: 0, -0, NaN, null and undefined are
\* false
Truthy(x) == x.k = "inf" \/ (IsNum(x) /\ ~IsZero(x))

\* x || null
OrNull(x) == IF Truthy(x) THEN x ELSE Null

\* Math.round(x * 100) / 100
Round2(x) == Div(MathRound(Mul(x, Num(100))), Num(100))

\* array[i] with i counted from 0: undefined outside the array
At(array, i) ==
    IF 0 <= i /\ i < Len(array) THEN array[i + 1] ELSE Undefined

\* an array of integers as values of the program
Nums(array) == [i \in 1..Len(array) |-> Num(array[i])]

\* the loop "sum += data[i]" up to position k: sums holds the value of sum
\* after each turn done
RECURSIVE SumLoop(_, _, _)
SumLoop(data, k, sums) ==
    LET i == Len(sums)
        sum == IF i = 0 THEN Num(0) ELSE sums[i]
    IN  IF i >= k THEN sum
        ELSE SumLoop(data, k, Append(sums, Add(sum, data[i + 1])))

\* data[0] + ... + data[k - 1], k <= data.length
Sum(data, k) == SumLoop(data, k, <<>>)

Multiplier(period) == Div(Num(2), Num(period + 1))

\* the loop "Calculate remaining EMAs": with the values in ema pushed, the
\* loop is at position i = period + ema.length - 1
RECURSIVE EmaLoop(_, _, _)
EmaLoop(data, period, ema) ==
    LET i == period + Len(ema) - 1
        last == ema[Len(ema)]
    IN  IF i >= Len(data) THEN ema
        ELSE EmaLoop(data, period,
                     Append(ema, Add(Mul(Sub(At(data, i), last), Multiplier(period)),
                                     last)))

calculateEMA(data, period) ==
    IF Len(data) = 0 THEN <<>>
    ELSE EmaLoop(data, period,
                 <<Div(Sum(data, Min(period, Len(data))), Num(period))>>)

\* the entry returned for a position without values
NullMACD(time) ==
    [time |-> time, macd |-> Null, signal |-> Null, histogram |-> Null]

StartIndexOneEarly(slowPeriod) == slowPeriod - 2

StartIndex(slowPeriod) == slowPeriod - 1

HistogramReversed(macdValue, signalValue) == Sub(signalValue, macdValue)

Histogram(macdValue, signalValue) == Sub(macdValue, signalValue)

InsufficientMACD(closes, slowPeriod) == Len(closes) < slowPeriod

\* the position read in fastEMA for macdLine[i]
FastIndex(i, fastPeriod) == i + (fastPeriod - 1)

\* the position in data of the last value that has entered ema[k]: ema[0]
\* is the mean of data[0..period-1] and each later entry takes one more
LastInput(k, period) == k + (period - 1)

\* the MACD line: fast EMA minus slow EMA, over slowEMA's range
macdLine(closes, fastPeriod, slowPeriod) ==
    LET fastEMA == calculateEMA(closes, fastPeriod)
        slowEMA == calculateEMA(closes, slowPeriod)
    IN  [p \in 1..Len(slowEMA) |->
            Sub(At(fastEMA, FastIndex(p - 1, fastPeriod)), slowEMA[p])]

\* the loop "Build result array": the entry pushed at position i, given the
\* MACD line and the signal line
MACDEntry(timeArray, macdValues, signalLine, slowPeriod, signalPeriod, i) ==
    LET startIndex == StartIndex(slowPeriod)
        macdIndex == i - startIndex
        macdValue == OrNull(At(macdValues, macdIndex))
        signalRead == At(signalLine, macdIndex - (signalPeriod - 1))
        hasSignal == macdIndex >= signalPeriod - 1 /\ Truthy(signalRead)
    IN  IF i < startIndex THEN NullMACD(At(Nums(timeArray), i))
        ELSE [time |-> At(Nums(timeArray), i),
              macd |-> macdValue,
              signal |-> IF hasSignal THEN signalRead ELSE Null,
              histogram |-> IF hasSignal /\ macdValue # Null
                            THEN Histogram(macdValue, signalRead)
                            ELSE Null]

\* the result array, given the MACD line and the signal line
MACDResult(timeArray, macdValues, signalLine, slowPeriod, signalPeriod) ==
    [p \in 1..Len(timeArray) |->
        MACDEntry(timeArray, macdValues, signalLine, slowPeriod, signalPeriod, p - 1)]

\* the signal line, the EMA of the MACD line, and the result array
MACDFromLine(timeArray, macdValues, slowPeriod, signalPeriod) ==
    MACDResult(timeArray, macdValues, calculateEMA(macdValues, signalPeriod),
               slowPeriod, signalPeriod)

calculateMACD(closes, timeArray, fastPeriod, slowPeriod, signalPeriod) ==
    IF InsufficientMACD(closes, slowPeriod)
    THEN [p \in 1..Len(timeArray) |-> NullMACD(Num(timeArray[p]))]
    ELSE MACDFromLine(timeArray, macdLine(closes, fastPeriod, slowPeriod),
                      slowPeriod, signalPeriod)

\* priceChanges[i - 1] = closes[i] - closes[i - 1]
priceChanges(closes) ==
    [p \in 1..(Len(closes) - 1) |->
        Sub(closes[p + 1], closes[p])]

\* avgGain and avgLoss after k turns of the loop "Calculate initial average
\* gains and losses", before the division by period
RECURSIVE InitialSumsLoop(_, _, _)
InitialSumsLoop(changes, k, done) ==
    LET i == Len(done)
        sums == IF i = 0 THEN [gain |-> Num(0), loss |-> Num(0)] ELSE done[i]
        change == At(changes, i)
    IN  IF i >= k THEN sums
        ELSE InitialSumsLoop(changes, k,
                 Append(done,
                        IF Positive(change)
                        THEN [sums EXCEPT !.gain = Add(sums.gain, change)]
                        ELSE [sums EXCEPT !.loss = Add(sums.loss, MathAbs(change))]))

InitialSums(changes, k) == InitialSumsLoop(changes, k, <<>>)

InitialAverages(changes, period) ==
    LET sums == InitialSums(changes, period)
    IN  [gain |-> Div(sums.gain, Num(period)), loss |-> Div(sums.loss, Num(period))]

\* the update adding the change to avgLoss with its sign
WilderStepSignedLoss(avg, change, period) ==
    IF Positive(change)
    THEN [gain |-> Div(Add(Mul(avg.gain, Num(period - 1)), change), Num(period)),
          loss |-> Div(Mul(avg.loss, Num(period - 1)), Num(period))]
    ELSE [gain |-> Div(Mul(avg.gain, Num(period - 1)), Num(period)),
          loss |-> Div(Add(Mul(avg.loss, Num(period - 1)), change), Num(period))]

\* one update of the running averages by Wilder's smoothing
WilderStep(avg, change, period) ==
    IF Positive(change)
    THEN [gain |-> Div(Add(Mul(avg.gain, Num(period - 1)), change), Num(period)),
          loss |-> Div(Mul(avg.loss, Num(period - 1)), Num(period))]
    ELSE [gain |-> Div(Mul(avg.gain, Num(period - 1)), Num(period)),
          loss |-> Div(Add(Mul(avg.loss, Num(period - 1)), MathAbs(change)),
                       Num(period))]

\* the loop "Calculate RSI for remaining data points": averages[k] holds
\* avgGain and avgLoss when the entry of position period + k - 1 is pushed,
\* and with the values in averages pushed the loop is at position
\* i = period + averages.length
RECURSIVE AveragesLoop(_, _, _, _)
AveragesLoop(changes, period, length, averages) ==
    LET i == period + Len(averages)
        avg == IF i = period THEN InitialAverages(changes, period)
               ELSE averages[Len(averages)]
    IN  IF i >= length THEN averages
        ELSE AveragesLoop(changes, period, length,
                          Append(averages, WilderStep(avg, At(changes, i - 1), period)))

\* avgGain and avgLoss at every position from period on
Averages(closes, period) ==
    AveragesLoop(priceChanges(closes), period, Len(closes), <<>>)

\* avgLoss === 0 ? 100 : avgGain / avgLoss
RS(avg) == IF IsZero(avg.loss) THEN Num(100) ELSE Div(avg.gain, avg.loss)

\* the rsi field pushed for the averages avg
RSIValue(avg) ==
    Round2(Sub(Num(100), Div(Num(100), Add(Num(1), RS(avg)))))

InsufficientRSIByPeriod(closes, period) == Len(closes) < period

InsufficientRSI(closes, period) == Len(closes) < period + 1

calculateRSI(closes, timeArray, period) ==
    IF InsufficientRSI(closes, period)
    THEN [p \in 1..Len(timeArray) |-> [time |-> Num(timeArray[p]), rsi |-> Null]]
    ELSE
      LET averages == Averages(closes, period)
          nulls == [p \in 1..period |->
                       [time |-> At(Nums(timeArray), p - 1), rsi |-> Null]]
          values == [q \in 1..Len(averages) |->
                        [time |-> At(Nums(timeArray), period + q - 1),
                         rsi |-> RSIValue(averages[q])]]
      IN  nulls \o values

(***************************************************************************)
(* Calls of the indicator functions.  The arguments are every series of    *)
(* at most MaxSeries prices with periods up to MaxPeriod, two long series  *)
(* with the default periods, and a series of prices near the largest       *)
(* number; the time sequence is as long as the series, one shorter or one  *)
(* longer.                                                                 *)
(***************************************************************************)
Prices == {Num(1), Num(2)}

\* a series rising by one per bar
Rising == [i \in 1..30 |-> Num(i)]

\* a series that never moves
Flat == [i \in 1..40 |-> Num(100)]

LongSeries == {Rising, Flat}

\* 2^1023: a finite number, Huge + Huge is Infinity
Huge == Finite(1, <<1>>, MaxExponent - 1)

\* a series swinging between 1 and Huge
Swinging == <<Num(1), Huge, Num(1), Huge, Num(1)>>

ShortSeries == UNION {[1..len -> Prices] : len \in 0..MaxSeries}

Stamps(m) == [i \in 1..m |-> i]

StampsFor(series) ==
    IF series \in LongSeries \cup {Swinging} THEN {Stamps(Len(series))}
    ELSE {Stamps(m) : m \in {Len(series) - 1, Len(series), Len(series) + 1} \ {0 - 1}}

ConfigsFor(series, call) ==
    IF series \in LongSeries THEN {DefaultConfig}
    ELSE IF series = Swinging
    THEN {[DefaultConfig EXCEPT !.period = p] : p \in 1..(Len(series) - 1)}
    ELSE IF call = "call calculateMACD"
    THEN {[DefaultConfig EXCEPT !.fastPeriod = f, !.slowPeriod = s,
                                !.signalPeriod = g] :
            f \in 1..MaxPeriod, s \in 1..MaxPeriod, g \in 1..MaxPeriod}
    ELSE {[DefaultConfig EXCEPT !.period = p] : p \in 1..MaxPeriod}

InitIndicators ==
    /\ DrawingInit
    /\ canvas = "attached"
    /\ ctx
    /\ closePrices \in ShortSeries \cup LongSeries \cup {Swinging}
    /\ times \in StampsFor(closePrices)
    /\ pc \in {"call calculateRSI", "call calculateMACD", "call calculateEMA"}
    /\ config \in ConfigsFor(closePrices, pc)
    /\ result = <<>>
    /\ ChartIdle

CalculateRSI ==
    /\ pc = "call calculateRSI"
    /\ result' = calculateRSI(closePrices, times, config.period)
    /\ pc' = "calculateRSI"
    /\ UNCHANGED <<closePrices, times, config>>
    /\ UNCHANGED drawingVars
    /\ UNCHANGED chartVars

CalculateMACD ==
    /\ pc = "call calculateMACD"
    /\ result' = calculateMACD(closePrices, times, config.fastPeriod,
                               config.slowPeriod, config.signalPeriod)
    /\ pc' = "calculateMACD"
    /\ UNCHANGED <<closePrices, times, config>>
    /\ UNCHANGED drawingVars
    /\ UNCHANGED chartVars

CalculateEMA ==
    /\ pc = "call calculateEMA"
    /\ result' = calculateEMA(closePrices, config.period)
    /\ pc' = "calculateEMA"
    /\ UNCHANGED <<closePrices, times, config>>
    /\ UNCHANGED drawingVars
    /\ UNCHANGED chartVars

NextIndicators ==
    \/ CalculateRSI
    \/ CalculateMACD
    \/ CalculateEMA

SpecIndicators == InitIndicators /\ [][NextIndicators]_vars

(***************************************************************************)
(* The chart component of src/src/CustomCandlestickChart.tsx: range        *)
(* selection by double-click, the single-candle popup, and the loading of  *)
(* candles by the mount effect.                                            *)
(***************************************************************************)
\* the times a double-click or the crosshair can resolve to
ClickTimes == {10, 20, 30}

\* the popup and selection state after handleDoubleClick, time being what
\* coordinateToTime returned
handleDoubleClick(state, time) ==
    IF time = NoTime THEN state
    ELSE IF ~state.isSelectingRangeRef
    THEN [state EXCEPT !.isSelectingRangeRef = TRUE, !.firstClickTimeRef = time,
                       !.isSelectingRange = TRUE, !.firstClickTime = time,
                       !.showPopup = FALSE, !.showRangePopup = FALSE]
    ELSE [state EXCEPT !.selectedRangeData =
                           [startTime |-> state.firstClickTimeRef, endTime |-> time],
                       !.showRangePopup = TRUE, !.showPopup = FALSE,
                       !.isSelectingRangeRef = FALSE, !.firstClickTimeRef = NoTime,
                       !.isSelectingRange = FALSE, !.firstClickTime = NoTime]

\* handleCrosshairMove not testing isSelectingRangeRef
handleCrosshairMoveAlways(state, time, candle) ==
    IF time # NoTime /\ candle
    THEN [state EXCEPT !.popupData = time, !.showPopup = TRUE]
    ELSE [state EXCEPT !.showPopup = FALSE]

\* the popup state after handleCrosshairMove: time is param.time, candle
\* says that the series has data there and the crosshair has a point
handleCrosshairMove(state, time, candle) ==
    IF state.isSelectingRangeRef THEN state
    ELSE IF time # NoTime /\ candle
    THEN [state EXCEPT !.popupData = time, !.showPopup = TRUE]
    ELSE [state EXCEPT !.showPopup = FALSE]

\* how far loadData is when the effect that called it returns: with real
\* data it waits for fetchCoinAnalysis, with mock data it has finished
loadDataStarted(real) == IF real THEN "pending" ELSE "done"

\* one run of the mount effect: the chart and series of the run before are
\* removed by its cleanup, a new chart and series are created and loadData
\* is called on the new series
RunEffect(real) ==
    /\ mount' = mount + 1
    /\ loads' = [loads EXCEPT ![mount + 1] = loadDataStarted(real)]
    /\ loading' = real
    /\ error' = 0
    /\ seriesData' = [seriesData EXCEPT ![mount + 1] = IF real THEN "empty" ELSE "mock"]

\* the component is mounted
Mount(real) ==
    /\ mount = 0
    /\ RunEffect(real)
    /\ chartOp' = [name |-> "mount", time |-> NoTime]
    /\ UNCHANGED ui
    /\ UNCHANGED drawingVars
    /\ UNCHANGED indicatorVars

\* symbol, useRealData or timeframe changes and the effect runs again; the
\* timeframe buttons are disabled while loading
Remount(dependency, real) ==
    /\ mount > 0
    /\ mount < MaxMounts
    /\ dependency = "timeframe" => ~loading
    /\ RunEffect(real)
    /\ chartOp' = [name |-> "remount", time |-> NoTime]
    /\ UNCHANGED ui
    /\ UNCHANGED drawingVars
    /\ UNCHANGED indicatorVars

\* fetchCoinAnalysis of run g resolves and loadData continues with setData
\* on its series.  setData throws (thrown) when the library rejects the
\* candles, as it does two candles of one time, and on the series of a chart
\* already removed it returns or throws; a throw is caught like a failed
\* fetch: the catch block sets the error, clears loading and writes fallback
\* data, which throws again or not (fallbackThrown) on a removed chart
FetchResolves(g, thrown, fallbackThrown) ==
    /\ loads[g] = "pending"
    /\ fallbackThrown => (thrown /\ g # mount)
    /\ loads' = [loads EXCEPT ![g] = IF thrown THEN "threw" ELSE "resolved"]
    /\ seriesData' = IF ~thrown THEN [seriesData EXCEPT ![g] = "api"]
                     ELSE IF ~fallbackThrown THEN [seriesData EXCEPT ![g] = "fallback"]
                     ELSE seriesData
    /\ error' = IF thrown THEN g ELSE error
    /\ loading' = FALSE
    /\ chartOp' = [name |-> "resolve", time |-> NoTime]
    /\ UNCHANGED <<ui, mount>>
    /\ UNCHANGED drawingVars
    /\ UNCHANGED indicatorVars

\* fetchCoinAnalysis of run g rejects: the catch block sets the error,
\* clears loading and writes fallback data into the series of run g, which
\* throws or not (thrown) when that chart is already removed
FetchRejects(g, thrown) ==
    /\ loads[g] = "pending"
    /\ thrown => g # mount
    /\ loads' = [loads EXCEPT ![g] = "rejected"]
    /\ seriesData' = IF thrown THEN seriesData ELSE [seriesData EXCEPT ![g] = "fallback"]
    /\ error' = g
    /\ loading' = FALSE
    /\ chartOp' = [name |-> "reject", time |-> NoTime]
    /\ UNCHANGED <<ui, mount>>
    /\ UNCHANGED drawingVars
    /\ UNCHANGED indicatorVars

\* the 'dblclick' listener of the chart container
DoubleClick(time) ==
    /\ mount > 0
    /\ ui' = handleDoubleClick(ui, time)
    /\ chartOp' = [name |-> "dblclick", time |-> time]
    /\ UNCHANGED <<mount, loads, loading, error, seriesData>>
    /\ UNCHANGED drawingVars
    /\ UNCHANGED indicatorVars

\* the callback given to subscribeCrosshairMove
CrosshairMove(time, candle) ==
    /\ mount > 0
    /\ ui' = handleCrosshairMove(ui, time, candle)
    /\ chartOp' = [name |-> "crosshair", time |-> time]
    /\ UNCHANGED <<mount, loads, loading, error, seriesData>>
    /\ UNCHANGED drawingVars
    /\ UNCHANGED indicatorVars

\* the button of the range popup: setShowRangePopup(false)
CloseRangePopup ==
    /\ ui.showRangePopup
    /\ ui' = [ui EXCEPT !.showRangePopup = FALSE]
    /\ chartOp' = [name |-> "close", time |-> NoTime]
    /\ UNCHANGED <<mount, loads, loading, error, seriesData>>
    /\ UNCHANGED drawingVars
    /\ UNCHANGED indicatorVars

\* range selection and popups on a mounted chart
NextSelection ==
    \/ \E real \in BOOLEAN : Mount(real)
    \/ \E time \in ClickTimes \cup {NoTime} : DoubleClick(time)
    \/ \E time \in ClickTimes \cup {NoTime}, candle \in BOOLEAN :
          CrosshairMove(time, candle)
    \/ CloseRangePopup

SpecSelection == Init /\ [][NextSelection]_vars

\* the loads started by the runs of the mount effect
NextLoad ==
    \/ \E real \in BOOLEAN : Mount(real)
    \/ \E dependency \in {"symbol", "timeframe", "useRealData"}, real \in BOOLEAN :
          Remount(dependency, real)
    \/ \E g \in 1..MaxMounts, thrown \in BOOLEAN, fallbackThrown \in BOOLEAN :
          FetchResolves(g, thrown, fallbackThrown)
    \/ \E g \in 1..MaxMounts, thrown \in BOOLEAN : FetchRejects(g, thrown)

SpecLoad == Init /\ [][NextLoad]_vars

(***************************************************************************)
(* The whole program: every operation and event above.                     *)
(***************************************************************************)
Next ==
    \/ \E chart \in Charts : Construct(chart)
    \/ \E type \in Types, point \in Points : StartDrawing(type, point)
    \/ \E point \in Points : ContinueDrawing(point)
    \/ FinishDrawing
    \/ ClearAll
    \/ RemoveLastDrawing
    \/ Destroy
    \/ \E vis \in MapperStates : VisibleRangeChange(vis)
    \/ WindowResize
    \/ \E tool \in ToolbarTools : SelectTool(tool)
    \/ Tick
    \/ CalculateRSI
    \/ CalculateMACD
    \/ CalculateEMA
    \/ \E real \in BOOLEAN : Mount(real)
    \/ \E dependency \in {"symbol", "timeframe", "useRealData"}, real \in BOOLEAN :
          Remount(dependency, real)
    \/ \E g \in 1..MaxMounts, thrown \in BOOLEAN, fallbackThrown \in BOOLEAN :
          FetchResolves(g, thrown, fallbackThrown)
    \/ \E g \in 1..MaxMounts, thrown \in BOOLEAN : FetchRejects(g, thrown)
    \/ \E time \in ClickTimes \cup {NoTime} : DoubleClick(time)
    \/ \E time \in ClickTimes \cup {NoTime}, candle \in BOOLEAN :
          CrosshairMove(time, candle)
    \/ CloseRangePopup

Spec == Init /\ [][Next]_vars

(***************************************************************************)
(* Properties of the drawing model.                                        *)
(***************************************************************************)
\* the line subtypes and shape subtypes as the specification names them
SpecLineSubtypes == {"trendline", "horizontal", "vertical", "ray"}

SpecShapeSubtypes == {"rectangle", "circle", "triangle"}

\* new is old with one entry of the given type and points appended
AppendedOne(old, new, type, points) ==
    /\ Len(new) = Len(old) + 1
    /\ SubSeq(new, 1, Len(old)) = old
    /\ new[Len(new)].type = type
    /\ new[Len(new)].points = points

\* C1: after start(t, p1), one or more continue calls the last with pk, and
\* finish(), exactly one primitive of type t with points [p1, pk] is last in
\* the Line collection (t a line subtype) or in the Shape collection (t a
\* shape subtype), the other collection is unchanged and the ActiveDrawing
\* is cleared.
C1_FinishAppendsStartedDrawing ==
    [][(FinishDrawing /\ script.phase = "continued") =>
         /\ activeDrawing' = NoDrawing
         /\ script.type \in SpecLineSubtypes =>
              /\ AppendedOne(lines, lines', script.type,
                             <<script.first[1], script.last[1]>>)
              /\ shapes' = shapes
         /\ script.type \in SpecShapeSubtypes =>
              /\ AppendedOne(shapes, shapes', script.type,
                             <<script.first[1], script.last[1]>>)
              /\ lines' = lines]_vars

\* C2: finish() on an ActiveDrawing with fewer than 2 points leaves the Line,
\* Shape and Text collections as they were and clears the ActiveDrawing.
C2_FinishDiscardsPartialDrawing ==
    [][(FinishDrawing /\ activeDrawing # NoDrawing /\ Len(activeDrawing.points) < 2) =>
         /\ lines' = lines
         /\ shapes' = shapes
         /\ texts' = texts
         /\ activeDrawing' = NoDrawing]_vars

\* finish() was called right after a start() that created a drawing, while
\* primitives were stored
C2_Witness ==
    /\ lastOp = "finish"
    /\ script.phase = "finished"
    /\ script.moves = 0
    /\ IsLineType(script.type) \/ IsShapeType(script.type)
    /\ before = Lengths(lines, shapes)
    /\ Len(lines) > 0
    /\ activeDrawing = NoDrawing

\* C3: every primitive of the Line and Shape collections has exactly 2 points.
C3_PersistedHaveTwoPoints ==
    /\ \A i \in 1..Len(lines) : Len(lines[i].points) = 2
    /\ \A i \in 1..Len(shapes) : Len(shapes[i].points) = 2

\* a line and a shape are stored after a drawing was previewed more than once
\* and finished
C3_Witness ==
    /\ Len(lines) > 0
    /\ Len(shapes) > 0
    /\ lastOp = "finish"
    /\ script.phase = "finished"
    /\ script.moves = 2
    /\ IsLineType(script.type) \/ IsShapeType(script.type)
    /\ before # Lengths(lines, shapes)

\* C4: start(type, point) makes the ActiveDrawing a new drawing of that type
\* holding exactly the given point, for every type, and adds nothing to the
\* collections.
C4_StartReplacesActiveDrawing ==
    lastOp = "start" =>
        /\ activeDrawing.type = script.type
        /\ activeDrawing.points = script.first
        /\ before = Lengths(lines, shapes)

\* C5: continue(point) appends the point as the 2nd of a 1-point
\* ActiveDrawing and overwrites the 2nd of a 2-point one, leaving the 1st;
\* the ActiveDrawing never has more than 2 points, and its first point is the
\* one given to the start that created it.
C5_ContinueKeepsFirstPoint ==
    [][/\ \A point \in Points :
            (ContinueDrawing(point) /\ activeDrawing # NoDrawing) =>
                /\ Len(activeDrawing.points) = 1 =>
                       activeDrawing'.points = Append(activeDrawing.points, point)
                /\ Len(activeDrawing.points) = 2 =>
                       activeDrawing'.points = <<activeDrawing.points[1], point>>
       /\ Len(activeDrawing'.points) <= 2
       /\ activeDrawing' # NoDrawing =>
            \/ /\ activeDrawing # NoDrawing
               /\ activeDrawing'.points[1] = activeDrawing.points[1]
            \/ /\ lastOp' = "start"
               /\ activeDrawing'.points = script'.first]_vars

\* the 2nd point of a 2-point ActiveDrawing has been overwritten
C5_Witness ==
    /\ lastOp = "continue"
    /\ script.phase = "continued"
    /\ script.moves = 2
    /\ activeDrawing.type = script.type
    /\ activeDrawing.points = <<script.first[1], script.last[1]>>
    /\ script.first # script.last

\* C6: removeLast() removes exactly the last Shape when there is one and
\* leaves the Lines; with no Shape it removes exactly the last Line; with
\* neither it changes nothing of the model; never more than one primitive.
C6_RemoveLastPopsOne ==
    [][RemoveLastDrawing =>
         /\ Len(shapes) > 0 =>
              /\ shapes' = SubSeq(shapes, 1, Len(shapes) - 1)
              /\ lines' = lines
         /\ (Len(shapes) = 0 /\ Len(lines) > 0) =>
              /\ lines' = SubSeq(lines, 1, Len(lines) - 1)
              /\ shapes' = shapes
         /\ (Len(shapes) = 0 /\ Len(lines) = 0) =>
              /\ lines' = lines
              /\ shapes' = shapes
         /\ texts' = texts
         /\ activeDrawing' = activeDrawing
         /\ Len(lines') + Len(shapes') >= Len(lines) + Len(shapes) - 1]_vars

\* removeLast() has removed the shape of a model holding a line and a shape
C6_Witness ==
    /\ lastOp = "removeLast"
    /\ before = <<1, 1>>
    /\ Len(lines) = 1
    /\ Len(shapes) = 0

\* C7: after clearAll() the Line, Shape and Text collections are empty.
C7_ClearAllEmpties ==
    lastOp = "clearAll" => (lines = <<>> /\ shapes = <<>> /\ texts = <<>>)

\* clearAll() has run on a model holding a line and a shape
C7_Witness ==
    /\ lastOp = "clearAll"
    /\ before[1] > 0
    /\ before[2] > 0
    /\ lines = <<>>

\* C8: each attached manager has one view-range subscription and one resize
\* listener and destroy() removes both: constructing an attached manager adds
\* one of each, destroying an attached manager takes one of each away, and no
\* view-range change or resize runs the redraw of a destroyed manager.
C8_DestroyRemovesSubscriptions ==
    [][/\ (lastOp' = "construct" /\ constructed' = constructed + 1
                                 /\ canvas' = "attached") =>
             /\ rangeSubs' = rangeSubs + 1
             /\ resizeListeners' = resizeListeners + 1
       /\ (lastOp' = "destroy" /\ canvas = "attached") =>
             /\ rangeSubs' = rangeSubs - 1
             /\ resizeListeners' = resizeListeners - 1
       /\ ~(canvas' = "detached" /\ lastOp' \in {"rangeChange", "resize"} /\ redrawn')
      ]_vars

\* C9: after destroy() the Line, Shape and Text collections are empty.
C9_DestroyEmpties ==
    lastOp = "destroy" => (lines = <<>> /\ shapes = <<>> /\ texts = <<>>)

\* the place of a draw operation's source in the order of a redraw
Rank(src) == CASE src = "canvas" -> 0
               [] src = "lines" -> 1
               [] src = "shapes" -> 2
               [] src = "active" -> 3

\* C10: a redraw clears the surface first, then draws the Lines in insertion
\* order, then the Shapes in insertion order, then the ActiveDrawing.
C10_RedrawOrder ==
    surface # <<>> =>
        /\ surface[1] = ClearRect
        /\ \A i \in 2..Len(surface) : surface[i].fn # "clearRect"
        /\ \A i, j \in 1..Len(surface) :
              i < j =>
                \/ Rank(surface[i].src) < Rank(surface[j].src)
                \/ /\ surface[i].src = surface[j].src
                   /\ surface[i].idx < surface[j].idx

\* a redraw has drawn a line, a shape and the ActiveDrawing
C10_Witness ==
    /\ Len(surface) = 4
    /\ surface[2].src = "lines"
    /\ surface[3].src = "shapes"
    /\ surface[4].src = "active"
    /\ redrawn

\* a draw operation for the primitive at position idx of src is on the surface
Drawn(src, idx) ==
    \E k \in 1..Len(surface) : surface[k].src = src /\ surface[k].idx = idx

\* the host's mapper gives a coordinate for the point
PointMapped(point) ==
    ~visible.throws /\ visible.prices /\ point.time \in visible.times

\* C11: in a redraw a primitive is drawn only if every one of its points maps
\* to a coordinate; one whose point gets no coordinate, or for which the
\* mapper fails, gets no draw operation, and every other primitive is drawn.
C11_UnmappedPrimitivesSkipped ==
    redrawn =>
        /\ \A i \in 1..Len(lines) :
              Drawn("lines", i) <=> \A k \in 1..2 : PointMapped(lines[i].points[k])
        /\ \A i \in 1..Len(shapes) :
              Drawn("shapes", i) <=> \A k \in 1..2 : PointMapped(shapes[i].points[k])
        /\ Drawn("active", 1) <=>
              /\ Len(activeDrawing.points) = 2
              /\ \A k \in 1..2 : PointMapped(activeDrawing.points[k])

\* a redraw has skipped one stored primitive and drawn another
C11_Witness ==
    /\ redrawn
    /\ \E i \in 1..Len(lines) : ~PointMapped(lines[i].points[2]) /\ ~Drawn("lines", i)
    /\ \E i \in 1..Len(lines) \cup 1..Len(shapes) : Drawn("lines", i) \/ Drawn("shapes", i)

\* C12 as claimed: a manager constructed without a container issues no draw
\* operation, has no subscription, and its Line and Shape collections stay
\* empty whatever is called.
C12_InertManagerStaysEmpty ==
    canvas = "none" =>
        /\ surface = <<>>
        /\ ~redrawn
        /\ constructed = 1 => (rangeSubs = 0 /\ resizeListeners = 0)
        /\ lines = <<>>
        /\ shapes = <<>>

\* C12 as amended: a manager constructed without a container has no surface
\* and no subscription, and no operation called on it issues a draw
\* operation; its collections are still filled by finish().
C12_InertManagerDrawsNothing ==
    canvas = "none" =>
        /\ surface = <<>>
        /\ ~redrawn
        /\ constructed = 1 => (rangeSubs = 0 /\ resizeListeners = 0)

\* finish() has persisted a line on a manager constructed without a container
C12_Witness ==
    /\ canvas = "none"
    /\ lastOp = "finish"
    /\ Len(lines) > before[1]
    /\ surface = <<>>

\* C13: any two primitives stored at the same time have different ids.
C13_StoredIdsDiffer ==
    LET all == lines \o shapes
    IN  \A i, j \in 1..Len(all) : i # j => all[i].id # all[j].id

(***************************************************************************)
(* Properties of the indicator functions.                                  *)
(***************************************************************************)
\* the entries a call returns when it has too little data: one per time,
\* carrying that time and no value
AllNull(entries, timeArray, fields) ==
    /\ Len(entries) = Len(timeArray)
    /\ \A p \in 1..Len(entries) :
          /\ entries[p].time = Num(timeArray[p])
          /\ \A f \in fields : entries[p][f] = Null

\* C14: when the price series is shorter than the lookback (period + 1 for
\* RSI, slow for MACD) the function returns one entry per time, in order,
\* each with the time and all value fields null.
C14_ShortInputAllNull ==
    /\ (pc = "calculateRSI" /\ Len(closePrices) < config.period + 1)
          => AllNull(result, times, {"rsi"})
    /\ (pc = "calculateMACD" /\ Len(closePrices) < config.slowPeriod)
          => AllNull(result, times, {"macd", "signal", "histogram"})

C14_Witness ==
    /\ pc \in {"calculateRSI", "calculateMACD"}
    /\ Len(closePrices) = 2
    /\ Len(times) = 3
    /\ Len(closePrices) < Min(config.period + 1, config.slowPeriod)
    /\ Len(result) = 3

\* a MACD call on a series of at least slowPeriod prices has returned
MACDComputed == pc = "calculateMACD" /\ Len(closePrices) >= config.slowPeriod

\* C15: for a series of at least slow prices MACD returns one entry per
\* time, entry i carrying times[i], and macd, signal and histogram are all
\* null at every position before slow - 1.
C15_MACDAlignedAndNullBeforeSlow ==
    MACDComputed =>
        /\ Len(result) = Len(times)
        /\ \A p \in 1..Len(result) :
              /\ result[p].time = Num(times[p])
              /\ p - 1 < config.slowPeriod - 1 =>
                    /\ result[p].macd = Null
                    /\ result[p].signal = Null
                    /\ result[p].histogram = Null

C15_Witness ==
    /\ MACDComputed
    /\ config.slowPeriod = 3
    /\ Len(times) = Len(closePrices) + 1
    /\ result[2].macd = Null
    /\ result[3].macd # Null

\* C16: in a MACD result the histogram is macd - signal, and not null,
\* wherever macd and signal are both not null, and null wherever either is.
C16_HistogramIsDifference ==
    pc = "calculateMACD" =>
        \A p \in 1..Len(result) :
            IF result[p].macd # Null /\ result[p].signal # Null
            THEN /\ result[p].histogram # Null
                 /\ result[p].histogram = Sub(result[p].macd, result[p].signal)
            ELSE result[p].histogram = Null

C16_Witness ==
    /\ pc = "calculateMACD"
    /\ \E p, q \in 1..Len(result) :
          /\ result[p].macd # Null
          /\ result[p].signal = Null
          /\ result[q].histogram # Null
          /\ result[q].histogram # Num(0)

\* C17: null marks insufficient lookback only: with as many times as
\* prices, and at least slow of them, macd is not null from position
\* slow - 1 on, and signal and histogram are not null from position
\* slow - 1 + signal - 1 on, whatever the values are.
C17_NullOnlyBeforeLookback ==
    (MACDComputed /\ Len(times) = Len(closePrices)) =>
        \A p \in 1..Len(result) :
            /\ p - 1 >= config.slowPeriod - 1 => result[p].macd # Null
            /\ p - 1 >= config.slowPeriod - 1 + config.signalPeriod - 1 =>
                  /\ result[p].signal # Null
                  /\ result[p].histogram # Null

\* an EMA call has returned
EMAComputed == pc = "calculateEMA"

\* C18: for a non-empty series EMA returns len(series) - period + 1 values,
\* the first being the mean of the first period inputs; for an empty series
\* it returns none.
C18_EMALengthAndSeed ==
    EMAComputed =>
        IF Len(closePrices) = 0 THEN result = <<>>
        ELSE /\ Len(result) = Len(closePrices) - config.period + 1
             /\ result[1] = Div(Sum(closePrices, config.period),
                                Num(config.period))

\* C19: every value EMA returns for a constant non-empty series is the
\* value of the series.
C19_EMAOfConstantIsConstant ==
    (/\ EMAComputed
     /\ Len(closePrices) > 0
     /\ \A p \in 1..Len(closePrices) : closePrices[p] = closePrices[1])
        => \A q \in 1..Len(result) : result[q] = closePrices[1]

\* C20: at every RSI output position the RSI is 100 exactly when the average
\* loss there is 0; for the prices 1..30 and period 14 the first 14 entries
\* are null and the 15th is 100.
C20_RSIHundredIffNoLoss ==
    (pc = "calculateRSI" /\ Len(closePrices) >= config.period + 1) =>
        /\ \A p \in (config.period + 1)..Len(result) :
              result[p].rsi = Num(100)
                  <=> IsZero(Averages(closePrices, config.period)[p - config.period].loss)
        /\ (closePrices = Rising /\ config.period = 14) =>
              /\ \A p \in 1..14 : result[p].rsi = Null
              /\ result[15].rsi = Num(100)

\* an RSI call on a series of at least period + 1 prices has returned
RSIComputed == pc = "calculateRSI" /\ Len(closePrices) >= config.period + 1

\* x is a number between 0 and 100, both included
WithinBounds(x) == IsNum(x) /\ LessEq(Num(0), x) /\ LessEq(x, Num(100))

\* C21 as claimed: for a series of at least period + 1 finite prices and
\* period >= 1 every RSI value that is not null is a number between 0 and
\* 100, both included.
C21_RSIAlwaysWithinBounds ==
    (RSIComputed /\ config.period >= 1) =>
        \A p \in 1..Len(result) :
            result[p].rsi # Null => WithinBounds(result[p].rsi)

\* C21 as amended: for a series of at least period + 1 finite prices and
\* period >= 1 every RSI value that is not null and is computed from a
\* finite average gain and a finite average loss is a number between 0 and
\* 100, both included; where the sums of the gains and of the losses have
\* both overflowed, so that both averages are Infinity, the value is NaN.
C21_RSIWithinBounds ==
    (RSIComputed /\ config.period >= 1) =>
        \A p \in (config.period + 1)..Len(result) :
            LET avg == Averages(closePrices, config.period)[p - config.period]
            IN  /\ (IsNum(avg.gain) /\ IsNum(avg.loss)) =>
                      WithinBounds(result[p].rsi)
                /\ (avg.gain = Infinity(1) /\ avg.loss = Infinity(1)) =>
                      result[p].rsi = NaN

\* RSI has returned 0 at one position and more than 50 at another
C21_Witness ==
    /\ RSIComputed
    /\ \E p, q \in 1..Len(result) :
          /\ result[p].rsi = Num(0)
          /\ WithinBounds(result[q].rsi)
          /\ ~LessEq(result[q].rsi, Num(50))

\* C22: for a series of at least period + 1 prices RSI returns one entry
\* per time, entry i carrying times[i]; the first period entries are null
\* and every later one is not, also when times and the series differ in
\* length.
C22_RSIAlignedToTimes ==
    RSIComputed =>
        /\ Len(result) = Len(times)
        /\ \A p \in 1..Len(result) :
              /\ p <= Len(times) => result[p].time = Num(times[p])
              /\ result[p].rsi = Null <=> p <= config.period

(***************************************************************************)
(* Further properties of the drawing manager.                              *)
(***************************************************************************)
\* C23: every operation that changes the model (start, continue, finish,
\* clearAll, removeLast) runs a redraw before it returns, so the surface is
\* the render of the lines, shapes and active drawing it leaves; a preview
\* of a discarded active drawing is then gone from the surface.
C23_MutationsRedraw ==
    [][(/\ lastOp' \in {"start", "continue", "finish", "clearAll", "removeLast"}
        /\ <<lines', shapes', activeDrawing'>> # <<lines, shapes, activeDrawing>>
        /\ redrawRuns(ctx, canvas)) =>
          /\ redrawn'
          /\ surface' = redraw(ctx', canvas', surface, lines', shapes', activeDrawing',
                               visible')]_vars

\* C24: selecting a tool while an active drawing exists discards it, adds
\* nothing to lines or shapes and leaves no active drawing (so that a later
\* continue or finish does nothing until the next start).
C24_ReselectionDiscards ==
    [][(lastOp' = "selectTool" /\ activeDrawing # NoDrawing) =>
          /\ activeDrawing' = NoDrawing
          /\ lines' = lines
          /\ shapes' = shapes]_vars

\* C27: clearAll and removeLast leave the active drawing as it is; the
\* redraw they run still draws it, and a later finish still persists it.
C27_ClearAndRemoveKeepActive ==
    [][/\ lastOp' \in {"clearAll", "removeLast"} =>
            /\ activeDrawing' = activeDrawing
            /\ (redrawRuns(ctx, canvas) /\ Len(activeDrawing.points) = 2) =>
                  \E k \in 1..Len(surface') : /\ surface'[k].src = "active"
                                               /\ surface'[k].idx = 1
       /\ (/\ lastOp \in {"clearAll", "removeLast"}
           /\ lastOp' = "finish"
           /\ Len(activeDrawing.points) = 2) =>
              \/ AppendedOne(lines, lines', activeDrawing.type, activeDrawing.points)
              \/ AppendedOne(shapes, shapes', activeDrawing.type, activeDrawing.points)
      ]_vars

C27_Witness ==
    /\ lastOp = "clearAll"
    /\ before # <<0, 0>>
    /\ lines = <<>>
    /\ shapes = <<>>
    /\ Len(activeDrawing.points) = 2
    /\ Drawn("active", 1)

(***************************************************************************)
(* Further properties of the indicator functions.                          *)
(***************************************************************************)
\* C25: for a series of at least slow prices the entry at position
\* p >= slow - 1 reports macdLine[p - (slow - 1)], where macdLine[i] is
\* fastEMA[i + (fast - 1)] - slowEMA[i], and from position
\* slow - 1 + signal - 1 on it reports the EMA of macdLine over signal,
\* signalLine[p - (slow - 1) - (signal - 1)].
C25_EntriesReportLines ==
    MACDComputed =>
        LET macdValues == macdLine(closePrices, config.fastPeriod, config.slowPeriod)
            signalLine == calculateEMA(macdValues, config.signalPeriod)
            first == config.slowPeriod - 1
            firstSignal == first + config.signalPeriod - 1
        IN  \A p \in 1..Len(result) :
                /\ (first <= p - 1 /\ p - 1 - first < Len(macdValues)) =>
                      result[p].macd = macdValues[p - first]
                /\ (firstSignal <= p - 1 /\ p - 1 - firstSignal < Len(signalLine)) =>
                      result[p].signal = signalLine[p - firstSignal]

\* the running averages in which each delta enters once: the means over the
\* first period deltas at position period, then one Wilder update per later
\* delta
RECURSIVE OnceLoop(_, _, _, _)
OnceLoop(changes, period, length, averages) ==
    LET i == period + Len(averages)
    IN  IF i >= length THEN averages
        ELSE OnceLoop(changes, period, length,
                      Append(averages,
                             IF i = period THEN InitialAverages(changes, period)
                             ELSE WilderStep(averages[Len(averages)],
                                             At(changes, i - 1), period)))

\* C26: each delta enters the running averages of RSI once: the initial
\* averages are the means of the gains and losses of the first period
\* deltas, the Wilder recurrence is applied to the deltas after those only,
\* and the value at position i uses the deltas up to close[i] - close[i-1].
C26_EachDeltaOnce ==
    RSIComputed =>
        LET once == OnceLoop(priceChanges(closePrices), config.period,
                             Len(closePrices), <<>>)
        IN  \A p \in (config.period + 1)..Len(result) :
                result[p].rsi = RSIValue(once[p - config.period])

\* C28: with fast < slow, at every position p from slow - 1 to the end of
\* the series the macd value is the fast EMA minus the slow EMA at the same
\* candle p, and the read of fastEMA is inside fastEMA.
C28_EMAsAtSameCandle ==
    (MACDComputed /\ config.fastPeriod < config.slowPeriod) =>
        \A p \in (config.slowPeriod - 1)..(Len(closePrices) - 1) :
            LET i == p - (config.slowPeriod - 1)
            IN  /\ LastInput(i, config.slowPeriod) = p
                /\ LastInput(FastIndex(i, config.fastPeriod), config.fastPeriod) = p
                /\ FastIndex(i, config.fastPeriod)
                      < Len(calculateEMA(closePrices, config.fastPeriod))

(***************************************************************************)
(* Properties of the chart component.                                      *)
(***************************************************************************)
\* the component is selecting a range
Selecting == ui.isSelectingRangeRef

\* the flag and the stored first click agree, in the refs and in the state,
\* and the single-candle popup is hidden while selecting
SelectionConsistent ==
    /\ ui.isSelectingRangeRef <=> ui.firstClickTimeRef # NoTime
    /\ ui.isSelectingRange = ui.isSelectingRangeRef
    /\ ui.firstClickTime = ui.firstClickTimeRef
    /\ Selecting => ~ui.showPopup

\* C29: range selection alternates between two states.  A double-click that
\* resolves to a time while not selecting stores the time as first click and
\* enters selecting; the next one opens the range popup with startTime the
\* stored time and endTime the new time, and leaves selecting; one that
\* resolves to no time changes nothing.  The selecting flag is set exactly
\* when a first-click time is stored, and while it is set no crosshair move
\* shows the single-candle popup.
C29_RangeSelectionAlternates ==
    [][/\ SelectionConsistent
       /\ SelectionConsistent'
       /\ \A time \in ClickTimes \cup {NoTime} :
            /\ (DoubleClick(time) /\ time # NoTime /\ ~Selecting) =>
                  /\ Selecting'
                  /\ ui'.firstClickTimeRef = time
                  /\ ui'.selectedRangeData = ui.selectedRangeData
            /\ (DoubleClick(time) /\ time # NoTime /\ Selecting) =>
                  /\ ~Selecting'
                  /\ ui'.showRangePopup
                  /\ ui'.selectedRangeData =
                        [startTime |-> ui.firstClickTimeRef, endTime |-> time]
            /\ (DoubleClick(time) /\ time = NoTime) => ui' = ui
            /\ (Selecting /\ \E candle \in BOOLEAN : CrosshairMove(time, candle)) =>
                  ui' = ui]_vars

C29_Witness ==
    /\ chartOp.name = "dblclick"
    /\ chartOp.time # NoTime
    /\ ~Selecting
    /\ ui.showRangePopup
    /\ ui.selectedRangeData.endTime = chartOp.time
    /\ ui.selectedRangeData.startTime \notin {NoTime, chartOp.time}
    /\ ui.popupData # NoTime

\* C30: when the effect runs again while an earlier load is in flight, the
\* end of the earlier load does not change what the new mount shows: loading
\* stays true until the load started last has finished, an error of an
\* earlier load is not shown for the new mount, and an earlier load writes
\* no candles into the new mount's series.
C30_StaleLoadChangesNothing ==
    mount > 0 =>
        /\ loads[mount] = "pending" => loading
        /\ error \in {0, mount}
        /\ loads[mount] = "pending" => seriesData[mount] = "empty"

====
